---------------------------- MODULE Spec2Model ----------------------------
(***************************************************************************)
(* A model of the AMF3 decoder of serde-amf3.                              *)
(*                                                                         *)
(*   src/src/format.rs  the byte cursor: read_byte, read_marker, read_u29, *)
(*                      read_double, read_string, skip                     *)
(*   src/src/lib.rs     the value decoder: deserialize_into,               *)
(*                      deserialize_array, the SeqAccess / MapAccess       *)
(*                      handlers and the entry point deserialize           *)
(*   src/src/traits.rs  the numeric casts of VisitInt / VisitDouble        *)
(*                                                                         *)
(* Bytes are numbers 0..255, a string is the sequence of its bytes, and    *)
(* the slice iterator `input` is the sequence of the bytes not yet read.   *)
(* Every function of the byte cursor is an operator from the Deserializer  *)
(* value to a Result; the handlers the consumer (serde's visitor) calls    *)
(* are the actions.                                                        *)
(***************************************************************************)
EXTENDS Integers, Sequences, FiniteSets, TLC

\* Longest buffer of the exhaustive part of the inputs.
MaxLen == 4

\* `let x = ..;` : F applied to the value bound, which is computed once.
Bind(x, F(_)) == CHOOSE r \in {F(v) : v \in {x}} : TRUE

----------------------------------------------------------------------------
(* format.rs: Marker and Error *)

\* enum Marker, in discriminant order: Markers[b + 1] has tag b.
Markers ==
  << "Undefined", "Null", "False", "True", "Integer", "Double", "String",
     "XmlDoc", "Date", "Array", "Object", "Xml", "ByteArray", "VectorInt",
     "VectorUInt", "VectorDouble", "VectorObject", "Dictionary" >>

\* enum Error. `byte` is the payload of InvalidMarker; the Utf8Error payload
\* of StringDecode (valid_up_to, error_len) is not modelled.
NoError == [kind |-> "none", byte |-> 0]
EndOfStream == [kind |-> "EndOfStream", byte |-> 0]
MissingStringReference == [kind |-> "MissingStringReference", byte |-> 0]
StringDecode == [kind |-> "StringDecode", byte |-> 0]
InvalidMarker(b) == [kind |-> "InvalidMarker", byte |-> b]
\* todo!() / unimplemented!(): a panic, not a value of Error.
Panic == [kind |-> "panic", byte |-> 0]

\* Result<T, Error> together with the Deserializer the call leaves behind.
Ok(d, v) == [ok |-> TRUE, val |-> v, err |-> NoError, d |-> d]
Err(d, e) == [ok |-> FALSE, val |-> 0, err |-> e, d |-> d]

\* Observation history kept beside the Deserializer: the calls made, the
\* errors raised and the values handed to the visitor, in order.
Log(d, ev) == [d EXCEPT !.trace = Append(@, ev)]

\* An Err(..) constructed at the place the error originates.
Raise(d, e) ==
  Err(Log(d, [op |-> "raise", err |-> e, in |-> d.input]), e)

\* The result r of the call `name` on d, with the call recorded: the input
\* and the table before and after it, and what it returned.
Observed(name, d, r) ==
  [r EXCEPT !.d = Log(@, [op |-> name,
                          in0 |-> d.input, in1 |-> r.d.input,
                          tab0 |-> d.string_reference_table,
                          tab1 |-> r.d.string_reference_table,
                          ok |-> r.ok, val |-> r.val, err |-> r.err])]

\* Deserializer::new
new(input) ==
  [input |-> input, string_reference_table |-> << >>, trace |-> << >>]

----------------------------------------------------------------------------
(* format.rs: the byte cursor *)

Marker_new_Coerce(d, value) ==
  IF value < 18 THEN Ok(d, Markers[value + 1]) ELSE Ok(d, "Undefined")

\* Marker::new: value < 0x12, else InvalidMarker(value)
Marker_new(d, value) ==
  IF value < 18 THEN Ok(d, Markers[value + 1])
  ELSE Raise(d, InvalidMarker(value))

read_byte_Peek(d) ==
  IF d.input = << >> THEN Raise(d, EndOfStream)
  ELSE Ok(d, Head(d.input))

read_byte_ZeroAtEnd(d) ==
  IF d.input = << >> THEN Ok(d, 0)
  ELSE Ok([d EXCEPT !.input = Tail(@)], Head(d.input))

read_byte(d) ==
  IF d.input = << >> THEN Raise(d, EndOfStream)
  ELSE Ok([d EXCEPT !.input = Tail(@)], Head(d.input))

read_marker(d) ==
  Bind(read_byte(d), LAMBDA b :
    IF ~b.ok THEN b
    ELSE Observed("read_marker", d, Marker_new(b.d, b.val)))

\* The rest of read_u29 after a byte with the continuation flag: `value`
\* holds the bits read so far, `n` bytes have been read.
RECURSIVE read_u29_Seven_more(_, _, _)
read_u29_Seven_more(d, value, n) ==
  Bind(read_byte(d), LAMBDA b :
    IF ~b.ok THEN b
    ELSE IF n = 3 THEN Ok(b.d, value * 128 + (b.val % 128))
    ELSE IF b.val >= 128
      THEN read_u29_Seven_more(b.d, value * 128 + (b.val % 128), n + 1)
    ELSE Ok(b.d, value * 128 + (b.val % 128)))

RECURSIVE read_u29_more(_, _, _)
read_u29_more(d, value, n) ==
  Bind(read_byte(d), LAMBDA b :
    IF ~b.ok THEN b
    ELSE IF n = 3 THEN Ok(b.d, value * 256 + b.val)
    ELSE IF b.val >= 128
      THEN read_u29_more(b.d, value * 128 + (b.val % 128), n + 1)
    ELSE Ok(b.d, value * 128 + (b.val % 128)))

\* read_u29. The carrier is u32; the value never exceeds 2^29 - 1 (three
\* times 7 bits, then 8), so the shifts cannot wrap.
read_u29(d) ==
  Bind(read_byte(d), LAMBDA first :
    IF ~first.ok THEN first
    ELSE IF first.val >= 128 THEN read_u29_more(first.d, first.val % 128, 1)
    ELSE Ok(first.d, first.val % 128))

\* try_split_array_ref::<8> and read_double. The f64 is kept as its eight
\* bytes in the order from_le_bytes reads them (least significant first).
read_double(d) ==
  IF Len(d.input) < 8 THEN Raise(d, EndOfStream)
  ELSE Ok([d EXCEPT !.input = SubSeq(@, 9, Len(@))], SubSeq(d.input, 1, 8))

\* std::str::from_utf8: whether the bytes are well-formed UTF-8.
RECURSIVE from_utf8_ok(_)
from_utf8_ok(s) ==
  IF s = << >> THEN TRUE
  ELSE IF s[1] < 128 THEN from_utf8_ok(Tail(s))
  ELSE IF s[1] \in 194..223 THEN
    /\ Len(s) >= 2
    /\ s[2] \in 128..191
    /\ from_utf8_ok(SubSeq(s, 3, Len(s)))
  ELSE IF s[1] \in 224..239 THEN
    /\ Len(s) >= 3
    /\ s[2] \in (IF s[1] = 224 THEN 160..191
                 ELSE IF s[1] = 237 THEN 128..159 ELSE 128..191)
    /\ s[3] \in 128..191
    /\ from_utf8_ok(SubSeq(s, 4, Len(s)))
  ELSE IF s[1] \in 240..244 THEN
    /\ Len(s) >= 4
    /\ s[2] \in (IF s[1] = 240 THEN 144..191
                 ELSE IF s[1] = 244 THEN 128..143 ELSE 128..191)
    /\ s[3] \in 128..191
    /\ s[4] \in 128..191
    /\ from_utf8_ok(SubSeq(s, 5, Len(s)))
  ELSE FALSE

\* read_string, the by-value branch once input.len() >= value holds.
read_string_by_value_CacheEmpty(d, value) ==
  Bind(SubSeq(d.input, 1, value), LAMBDA string_bytes :
    Bind([d EXCEPT !.input = SubSeq(@, value + 1, Len(@))], LAMBDA rest :
      IF ~from_utf8_ok(string_bytes) THEN Raise(rest, StringDecode)
      ELSE Ok([rest EXCEPT !.string_reference_table =
                             Append(@, string_bytes)], string_bytes)))

read_string_by_value(d, value) ==
  Bind(SubSeq(d.input, 1, value), LAMBDA string_bytes :
    Bind([d EXCEPT !.input = SubSeq(@, value + 1, Len(@))], LAMBDA rest :
      IF ~from_utf8_ok(string_bytes) THEN Raise(rest, StringDecode)
      ELSE IF string_bytes # << >>
      THEN Ok([rest EXCEPT !.string_reference_table =
                             Append(@, string_bytes)], string_bytes)
      ELSE Ok(rest, string_bytes)))

\* read_string, the by-reference branch.
read_string_by_reference_Last(d, value) ==
  IF value < Len(d.string_reference_table)
  THEN Ok(d, d.string_reference_table[Len(d.string_reference_table) - value])
  ELSE Raise(d, MissingStringReference)

read_string_by_reference(d, value) ==
  IF value < Len(d.string_reference_table)
  THEN Ok(d, d.string_reference_table[value + 1])
  ELSE Raise(d, MissingStringReference)

\* read_string
read_string(d) ==
  Observed("read_string", d,
    Bind(read_u29(d), LAMBDA header :
      IF ~header.ok THEN header
      ELSE IF header.val % 2 = 0
        THEN read_string_by_reference(header.d, header.val \div 2)
      ELSE IF Len(header.d.input) >= header.val \div 2
        THEN read_string_by_value(header.d, header.val \div 2)
      ELSE Raise(header.d, EndOfStream)))

\* skip, after the marker: Integer, Double, the twelve todo!() arms and
\* the `_ => {}` arm of Undefined, Null, False and True.
skip_marker_Double4(d, marker) ==
  IF marker = "Integer" THEN
    Bind(read_u29(d), LAMBDA u : IF ~u.ok THEN u ELSE Ok(u.d, 0))
  ELSE IF marker = "Double" THEN
    IF Len(d.input) < 4 THEN Raise(d, EndOfStream)
    ELSE Ok([d EXCEPT !.input = SubSeq(@, 5, Len(@))], 0)
  ELSE IF marker \in {"Undefined", "Null", "False", "True"} THEN Ok(d, 0)
  ELSE Err(d, Panic)

skip_marker(d, marker) ==
  IF marker = "Integer" THEN
    Bind(read_u29(d), LAMBDA u : IF ~u.ok THEN u ELSE Ok(u.d, 0))
  ELSE IF marker = "Double" THEN
    IF Len(d.input) < 8 THEN Raise(d, EndOfStream)
    ELSE Ok([d EXCEPT !.input = SubSeq(@, 9, Len(@))], 0)
  ELSE IF marker \in {"Undefined", "Null", "False", "True"} THEN Ok(d, 0)
  ELSE Err(d, Panic)

\* skip
skip(d) ==
  Observed("skip", d,
    Bind(read_marker(d), LAMBDA m :
      IF ~m.ok THEN m ELSE skip_marker(m.d, m.val)))

----------------------------------------------------------------------------
(* traits.rs: VisitInt and VisitDouble *)

\* The numeric types impl_visit_int! and impl_visit_double! are written for.
Targets ==
  {"u8", "u16", "u32", "u64", "i8", "i16", "i32", "i64", "f32", "f64"}

\* What the consumer may ask for a value: a numeric type (deserialize_u8 ..
\* deserialize_f64), "any" (deserialize_any and everything forwarded to it),
\* "ignored" (deserialize_ignored_any) or "char" (deserialize_char and the
\* other methods whose body is todo!()).
Requests == Targets \cup {"any", "ignored", "char"}

\* What the replay of a consumer keeps of a request.
Class(req) == IF req \in {"ignored", "char"} THEN req ELSE "value"

\* The f32 unit in the last place at v: 1 below 2^24, then doubling.
RECURSIVE Ulp32(_, _)
Ulp32(v, u) == IF v < 16777216 * u THEN u ELSE Ulp32(v, 2 * u)

\* v rounded to a multiple of u, ties to the even multiple.
RoundTo(v, u) ==
  IF 2 * (v % u) < u THEN (v \div u) * u
  ELSE IF 2 * (v % u) > u THEN ((v \div u) + 1) * u
  ELSE IF (v \div u) % 2 = 0 THEN (v \div u) * u
  ELSE ((v \div u) + 1) * u

\* `v as f32` for the u32 carrier v: rounded to 24 significant bits.
as_f32(v) == RoundTo(v, Ulp32(v, 1))

as_int_SignExtend29(v, t) ==
  IF t = "u8" THEN v % 256
  ELSE IF t = "u16" THEN v % 65536
  ELSE IF t \in {"u32", "u64"} THEN v
  ELSE IF t = "i8"
    THEN (IF v % 256 >= 128 THEN (v % 256) - 256 ELSE v % 256)
  ELSE IF t = "i16"
    THEN (IF v % 65536 >= 32768 THEN (v % 65536) - 65536 ELSE v % 65536)
  ELSE IF t \in {"i32", "i64"}
    THEN (IF v >= 268435456 THEN v - 536870912 ELSE v)
  ELSE IF t = "f32" THEN as_f32(v)
  ELSE v

\* `v as $t` for the u32 carrier v (impl_visit_int!): the low bits for a
\* narrower type, read in two's complement when $t is signed.
as_int(v, t) ==
  IF t = "u8" THEN v % 256
  ELSE IF t = "u16" THEN v % 65536
  ELSE IF t \in {"u32", "u64"} THEN v
  ELSE IF t = "i8"
    THEN (IF v % 256 >= 128 THEN (v % 256) - 256 ELSE v % 256)
  ELSE IF t = "i16"
    THEN (IF v % 65536 >= 32768 THEN (v % 65536) - 65536 ELSE v % 65536)
  ELSE IF t = "i32"
    THEN (IF v > 2147483647 THEN ((v - 2147483647) - 2147483647) - 2 ELSE v)
  ELSE IF t = "i64" THEN v
  ELSE IF t = "f32" THEN as_f32(v)
  ELSE v

\* N::visit_int(visitor, v): visitor.visit_$t(v as $t)
visit_int(t, v) ==
  [op |-> "visit_int", ty |-> t, carrier |-> v, val |-> as_int(v, t)]

\* F::visit_double(visitor, v): visitor.visit_$t(v as $t). The f64 is its
\* eight bytes; the cast is recorded, not computed.
visit_double(t, v) ==
  [op |-> "visit_double", ty |-> t, carrier |-> v, val |-> v]

----------------------------------------------------------------------------
(* lib.rs: the value decoder *)

\* What a decode of one value hands back to the handler that asked for it:
\* a scalar was delivered, or visit_seq / visit_map was entered with the
\* access object (len, next_key). hdr is the input at the array header and
\* first the string read as first_key.
Scalar ==
  [open |-> "none", len |-> 0, next_key |-> << >>, hdr |-> << >>,
   first |-> << >>]
Access(kind, len, key, hdr, first) ==
  [open |-> kind, len |-> len, next_key |-> key, hdr |-> hdr,
   first |-> first]

\* deserialize_array, after read_string returned first_key.
visit_array_AlwaysSeq(d, value, first_key, hdr) ==
  Ok(Log(d, [op |-> "visit_seq", len |-> value]),
     Access("seq", value, << >>, hdr, first_key))

visit_array(d, value, first_key, hdr) ==
  IF first_key = << >>
  THEN Ok(Log(d, [op |-> "visit_seq", len |-> value]),
          Access("seq", value, << >>, hdr, first_key))
  ELSE Ok(Log(d, [op |-> "visit_map", len |-> value]),
          Access("map", value, first_key, hdr, first_key))

\* ByteDeserializer::deserialize_array
deserialize_array(d) ==
  Bind(read_u29(d), LAMBDA header :
    IF ~header.ok THEN header
    ELSE IF header.val % 2 = 0 THEN Err(header.d, Panic)
    ELSE Bind(read_string(header.d), LAMBDA k :
           IF ~k.ok THEN k
           ELSE visit_array(k.d, header.val \div 2, k.val, d.input)))

\* deserialize_into, after the marker; N and F are the numeric types of
\* deserialize_into::<V, N, F> and req the method the consumer called.
deserialize_marker(d, marker, N, F, req) ==
  IF marker \in {"Undefined", "Null"}
    THEN Ok(Log(d, [op |-> "visit_none"]), Scalar)
  ELSE IF marker \in {"False", "True"}
    THEN Ok(Log(d, [op |-> "visit_bool", val |-> (marker = "True")]), Scalar)
  ELSE IF marker = "Integer" THEN
    Bind(read_u29(d), LAMBDA u :
      IF ~u.ok THEN u
      ELSE Ok(Log(u.d, visit_int(N, u.val) @@ [req |-> req]), Scalar))
  ELSE IF marker = "Double" THEN
    Bind(read_double(d), LAMBDA f :
      IF ~f.ok THEN f ELSE Ok(Log(f.d, visit_double(F, f.val)), Scalar))
  ELSE IF marker = "String" THEN
    Bind(read_string(d), LAMBDA s :
      IF ~s.ok THEN s
      ELSE Ok(Log(s.d, [op |-> "visit_borrowed_str", val |-> s.val]),
              Scalar))
  ELSE IF marker = "Array" THEN deserialize_array(d)
  ELSE Err(d, Panic)

\* ByteDeserializer::deserialize_into::<V, N, F>; deserialize_any is
\* deserialize_into::<V, u32, f64>, deserialize_$t is <V, $t, $t>.
deserialize_into(d, req) ==
  Bind(read_marker(d), LAMBDA m :
    IF ~m.ok THEN m
    ELSE deserialize_marker(m.d, m.val,
                            IF req = "any" THEN "u32" ELSE req,
                            IF req = "any" THEN "f64" ELSE req, req))

\* deserialize_ignored_any: skip, then visit_none
deserialize_ignored_any(d) ==
  Bind(skip(d), LAMBDA s :
    IF ~s.ok THEN s ELSE Ok(Log(s.d, [op |-> "visit_none"]), Scalar))

\* seed.deserialize(&mut *self.inner): the consumer's seed picks the method.
Request(d, req) ==
  IF req = "ignored" THEN deserialize_ignored_any(d)
  ELSE IF req = "char" THEN Err(d, Panic)
  ELSE deserialize_into(d, req)

----------------------------------------------------------------------------
(* lib.rs: the SeqAccess and MapAccess handlers *)

\* A key handed to the consumer's key seed: the string next_key
\* (BorrowedStrDeserializer) or the index self.len (UsizeDeserializer).
StrKey(s) == [int |-> FALSE, i |-> 0, s |-> s]
IntKey(i) == [int |-> TRUE, i |-> i, s |-> << >>]

\* ByteDeserializerSeq / ByteDeserializerMap as they sit on the call stack:
\* len and next_key are the fields; phase is where the consumer stands
\* ("ask": about to ask for the next element or key, "value": about to ask
\* for the value of the key it got, "inner": inside the visit of a nested
\* array). The rest is history: hdr the input at the array's header, first
\* the string read as first_key, starts the input left at the start of each
\* element asked for, yielded the elements returned, keys the keys returned,
\* read the keys read from the input, mark the input left when the access
\* last returned to the consumer, ended whether it has answered None.
NewFrame(a, d) ==
  [kind |-> a.open, len |-> a.len, next_key |-> a.next_key, phase |-> "ask",
   hdr |-> a.hdr, first |-> a.first, starts |-> << >>, yielded |-> 0,
   keys |-> << >>, read |-> << a.first >>, mark |-> Len(d.input),
   ended |-> FALSE]

next_element_seed_Swallow(f, d, req) ==
  IF f.len > 0
  THEN Bind(Request(d, req), LAMBDA r :
         IF r.ok \/ r.err = Panic
         THEN [f |-> [f EXCEPT !.len = @ - 1], some |-> TRUE, r |-> r]
         ELSE [f |-> [f EXCEPT !.len = 0], some |-> FALSE,
               r |-> Ok(r.d, Scalar)])
  ELSE [f |-> f, some |-> FALSE, r |-> Ok(d, Scalar)]

next_element_seed_OffByOne(f, d, req) ==
  IF f.len > 1
  THEN [f |-> [f EXCEPT !.len = @ - 1], some |-> TRUE, r |-> Request(d, req)]
  ELSE [f |-> f, some |-> FALSE, r |-> Ok(d, Scalar)]

\* ByteDeserializerSeq::next_element_seed
next_element_seed(f, d, req) ==
  IF f.len > 0
  THEN [f |-> [f EXCEPT !.len = @ - 1], some |-> TRUE, r |-> Request(d, req)]
  ELSE [f |-> f, some |-> FALSE, r |-> Ok(d, Scalar)]

next_key_seed_Ascending(f) ==
  IF f.next_key = << >> THEN
    IF f.len > 0
    THEN [f |-> [f EXCEPT !.len = @ - 1], some |-> TRUE,
          key |-> IntKey(Len(SelectSeq(f.keys, LAMBDA k : k.int)))]
    ELSE [f |-> f, some |-> FALSE, key |-> IntKey(0)]
  ELSE [f |-> f, some |-> TRUE, key |-> StrKey(f.next_key)]

\* ByteDeserializerMap::next_key_seed
next_key_seed(f) ==
  IF f.next_key = << >> THEN
    IF f.len > 0
    THEN [f |-> [f EXCEPT !.len = @ - 1], some |-> TRUE,
          key |-> IntKey(f.len - 1)]
    ELSE [f |-> f, some |-> FALSE, key |-> IntKey(0)]
  ELSE [f |-> f, some |-> TRUE, key |-> StrKey(f.next_key)]

\* ByteDeserializerMap::next_value_seed, after `seed.deserialize(..)?` has
\* returned a value: the read of the next key (lib.rs:98-101).
next_value_seed_tail(f, d) ==
  IF f.next_key # << >> THEN
    Bind(read_string(d), LAMBDA k :
      IF ~k.ok THEN [f |-> f, r |-> k]
      ELSE [f |-> [f EXCEPT !.next_key = k.val, !.read = Append(@, k.val)],
            r |-> Ok(k.d, Scalar)])
  ELSE [f |-> f, r |-> Ok(d, Scalar)]

\* ByteDeserializerMap::next_value_seed up to the point where the value is
\* complete (a scalar, or an error) or a nested array is entered; in the
\* latter case the tail runs when the nested visit returns.
next_value_seed(f, d, req) ==
  Bind(Request(d, req), LAMBDA v :
    IF ~v.ok \/ v.val.open # "none" THEN [f |-> f, r |-> v]
    ELSE next_value_seed_tail(f, v.d))

----------------------------------------------------------------------------
(* The inputs *)

\* The bytes of the exhaustive part: the markers Undefined, Null, True,
\* Integer, String, Array and the invalid 0x12; as header bytes they are a
\* reference to slot 0, the empty string / count 0, length 1 / count 1,
\* a reference to slot 2, length 3 / count 3 and length 4 / count 4.
Alphabet == {0, 1, 3, 4, 6, 9, 18}

Prefixes(s) == {SubSeq(s, 1, k) : k \in 0..Len(s)}

\* Encodings with their truncations: the two of tests::test_array, then
\* dense and associative arrays with string references, nesting, doubles,
\* ill-formed UTF-8, unsupported markers and two-byte headers.
Vectors ==
  { << 9, 7, 1, 4, 1, 4, 2, 4, 3 >>,
    << 9, 1, 3, 97, 4, 5, 3, 98, 4, 7, 1 >>,
    << 9, 5, 3, 97, 4, 5, 1, 4, 6, 4, 7 >>,
    << 9, 5, 1, 6, 3, 97, 6, 0 >>,
    << 9, 7, 1, 6, 3, 97, 6, 3, 98, 6, 2 >>,
    << 9, 5, 1, 6, 1, 6, 0 >>,
    << 9, 3, 3, 97, 6, 0, 0, 3, 1, 4, 9 >>,
    << 9, 3, 1, 9, 3, 1, 4, 5 >>,
    << 9, 3, 1, 9, 1, 3, 97, 2, 1 >>,
    << 9, 1, 3, 97, 9, 3, 1, 4, 5, 0, 2, 1 >>,
    << 5, 0, 0, 0, 0, 0, 0, 208, 63 >>,
    << 9, 3, 1, 5, 154, 153, 153, 153, 153, 153, 185, 63 >>,
    << 6, 3, 128 >>,
    << 6, 5, 195, 40 >>,
    << 6, 5, 195, 169 >>,
    << 9, 3, 1, 10 >>,
    << 9, 1, 3, 97, 255 >>,
    << 6, 129, 1 >>,
    << 9, 129, 1, 1, 2 >> }

\* Values of every U29 length, at and around the edges of the ranges.
SampleValues ==
  { 0, 1, 5, 127, 128, 129, 255, 256, 300, 16383, 16384, 32767, 32768, 65535,
    65536, 2097151, 2097152, 16777215, 16777216, 16777217, 268435455,
    268435456, 536870911, 536870912, 805306368, 1073741823 }

\* The minimal-length U29 encoding laid out in read_u29's doc comment: 7
\* value bits in each of the first three bytes under a continuation flag,
\* 8 value bits in the fourth.
EncodeU29(v) ==
  IF v < 128 THEN << v >>
  ELSE IF v < 16384 THEN << 128 + ((v \div 128) % 128), v % 128 >>
  ELSE IF v < 2097152
    THEN << 128 + ((v \div 16384) % 128), 128 + ((v \div 128) % 128),
            v % 128 >>
  ELSE << 128 + ((v \div 4194304) % 128), 128 + ((v \div 32768) % 128),
          128 + ((v \div 256) % 128), v % 256 >>

\* A case is a buffer: every sequence over Alphabet up to MaxLen bytes, every
\* prefix of a vector, every single byte, and (u29) an Integer marker, the
\* encoding of v and then pad.
Cases ==
  { [bytes |-> b, u29 |-> FALSE, v |-> 0, pad |-> << >>] :
      b \in UNION ({ [1..n -> Alphabet] : n \in 0..MaxLen }
                   \cup { Prefixes(w) : w \in Vectors })
            \cup { << m >> : m \in 0..255 } }
  \cup
  { [bytes |-> << 4 >> \o EncodeU29(v) \o p, u29 |-> TRUE, v |-> v,
     pad |-> p] : v \in SampleValues, p \in { << >>, << 255 >> } }

----------------------------------------------------------------------------
(* The decode session *)

VARIABLES
  case,     \* the case the buffer was taken from
  buffer,   \* the byte slice handed to deserialize
  inner,    \* ByteDeserializer.inner, the format::Deserializer
  stack,    \* the live SeqAccess / MapAccess objects, innermost last
  status,   \* "init", "running", "ok", "err" (an Error) or "abort" (panic)
  error,    \* the Error deserialize returned
  drained,  \* whether every visit so far ran to the access's None
  asked,    \* the class of each value request so far
  round,    \* 1: the buffer as given; 2: the buffer less its last byte
  plan      \* round 2: the requests of round 1

vars ==
  << case, buffer, inner, stack, status, error, drained, asked, round, plan >>

Init ==
  /\ case \in Cases
  /\ buffer = case.bytes
  /\ inner = new(buffer)
  /\ stack = << >>
  /\ status = "init"
  /\ error = NoError
  /\ drained = TRUE
  /\ asked = << >>
  /\ round = 1
  /\ plan = << >>

Top == stack[Len(stack)]
Below == SubSeq(stack, 1, Len(stack) - 1)

\* In round 2 the consumer is the consumer of round 1.
ReqAllowed(req) ==
  \/ round = 1
  \/ /\ Len(asked) < Len(plan)
     /\ plan[Len(asked) + 1] = Class(req)

\* An Err or a panic leaves through every enclosing handler (`?`, .map) and
\* through the consumer: deserialize returns it, or the process aborts.
Fail(r) ==
  /\ inner' = r.d
  /\ stack' = << >>
  /\ status' = IF r.err = Panic THEN "abort" ELSE "err"
  /\ error' = r.err

\* The access f is entered: the consumer's visit_seq / visit_map runs.
Enter(stk, a, d) ==
  /\ inner' = d
  /\ stack' = Append(stk, NewFrame(a, d))
  /\ status' = "running"
  /\ error' = NoError

\* Control is back in the access f, which returns to the consumer.
Return(stk, f, d) ==
  /\ inner' = d
  /\ stack' = Append(stk, [f EXCEPT !.phase = "ask", !.mark = Len(d.input)])
  /\ UNCHANGED << status, error >>

\* The value asked for is complete at d: control is back in the handler
\* that asked for it, the innermost of stk, or in deserialize.
Resume(stk, d) ==
  IF stk = << >> THEN
    /\ inner' = d
    /\ stack' = << >>
    /\ status' = "ok"
    /\ error' = NoError
  ELSE IF stk[Len(stk)].kind = "seq" THEN
    Return(SubSeq(stk, 1, Len(stk) - 1),
           [stk[Len(stk)] EXCEPT !.yielded = @ + 1], d)
  ELSE
    \E t \in {next_value_seed_tail(stk[Len(stk)], d)} :
      IF ~t.r.ok THEN Fail(t.r)
      ELSE Return(SubSeq(stk, 1, Len(stk) - 1), t.f, t.r.d)

\* deserialize: T::deserialize(&mut ByteDeserializer::from_bytes(input))
Deserialize(req) ==
  /\ status = "init"
  /\ ReqAllowed(req)
  /\ asked' = Append(asked, Class(req))
  /\ \E r \in {Request(inner, req)} :
       IF ~r.ok THEN Fail(r)
       ELSE IF r.val.open = "none" THEN Resume(<< >>, r.d)
       ELSE Enter(<< >>, r.val, r.d)
  /\ UNCHANGED << case, buffer, drained, round, plan >>

\* SeqAccess::next_element_seed
NextElementSeed(req) ==
  /\ status = "running"
  /\ Top.kind = "seq" /\ Top.phase = "ask" /\ ~Top.ended
  /\ \E c \in {next_element_seed(Top, inner, req)} :
       IF ~c.some THEN
         /\ c.r.ok
         /\ inner' = c.r.d
         /\ stack' = Append(Below, [c.f EXCEPT !.ended = TRUE])
         /\ UNCHANGED << status, error, asked >>
       ELSE
         /\ ReqAllowed(req)
         /\ asked' = Append(asked, Class(req))
         /\ \E g \in {[c.f EXCEPT !.phase = "inner",
                                  !.starts = Append(@, Len(inner.input))]} :
              IF ~c.r.ok THEN Fail(c.r)
              ELSE IF c.r.val.open = "none"
                THEN Resume(Append(Below, g), c.r.d)
              ELSE Enter(Append(Below, g), c.r.val, c.r.d)
  /\ UNCHANGED << case, buffer, drained, round, plan >>

\* MapAccess::next_key_seed
NextKeySeed ==
  /\ status = "running"
  /\ Top.kind = "map" /\ Top.phase = "ask" /\ ~Top.ended
  /\ \E c \in {next_key_seed(Top)} :
       stack' = Append(Below,
                  IF c.some
                  THEN [c.f EXCEPT !.phase = "value",
                                   !.keys = Append(@, c.key)]
                  ELSE [c.f EXCEPT !.ended = TRUE])
  /\ UNCHANGED << case, buffer, inner, status, error, drained, asked, round,
                  plan >>

\* MapAccess::next_value_seed
NextValueSeed(req) ==
  /\ status = "running"
  /\ Top.kind = "map" /\ Top.phase = "value"
  /\ ReqAllowed(req)
  /\ asked' = Append(asked, Class(req))
  /\ \E c \in {next_value_seed(Top, inner, req)} :
       IF ~c.r.ok THEN Fail(c.r)
       ELSE IF c.r.val.open = "none" THEN Return(Below, c.f, c.r.d)
       ELSE Enter(Append(Below, [c.f EXCEPT !.phase = "inner"]),
                  c.r.val, c.r.d)
  /\ UNCHANGED << case, buffer, drained, round, plan >>

\* The consumer's visit_seq / visit_map returns Ok: after the access said
\* None, or (round 1) before that. Control returns to the handler that asked
\* for the array.
VisitorReturn ==
  /\ status = "running"
  /\ Top.phase = "ask"
  /\ Top.ended \/ round = 1
  /\ drained' = (drained /\ Top.ended)
  /\ Resume(Below, inner)
  /\ UNCHANGED << case, buffer, asked, round, plan >>

\* The caller decodes again, a buffer without the last byte, after a decode
\* that read a whole buffer to its end with every visit drained.
Truncate ==
  /\ status = "ok"
  /\ round = 1
  /\ drained
  /\ inner.input = << >>
  /\ buffer # << >>
  /\ buffer' = SubSeq(buffer, 1, Len(buffer) - 1)
  /\ inner' = new(buffer')
  /\ stack' = << >>
  /\ status' = "init"
  /\ error' = NoError
  /\ drained' = TRUE
  /\ plan' = asked
  /\ asked' = << >>
  /\ round' = 2
  /\ UNCHANGED case

Next ==
  \/ \E req \in Requests : Deserialize(req)
  \/ \E req \in Requests : NextElementSeed(req)
  \/ NextKeySeed
  \/ \E req \in Requests : NextValueSeed(req)
  \/ VisitorReturn

Spec == Init /\ [][Next]_vars

NextTrunc == Next \/ Truncate

SpecTrunc == Init /\ [][NextTrunc]_vars

\* deserialize is one synchronous call: the consumer and the handlers run
\* on until it returns or the process aborts.
SpecLive == Spec /\ WF_vars(Next)

----------------------------------------------------------------------------
(* Properties *)

\* The events of the session so far, and those of one call.
Trace == inner.trace
EventsOf(name) == {k \in 1..Len(Trace) : Trace[k].op = name}

\* The header a read starts with, decoded from the input it was given.
HeaderAt(in) == read_u29(new(in))

\* The number of bytes of the minimal U29 encoding of v.
U29Len(v) ==
  IF v <= 127 THEN 1 ELSE IF v <= 16383 THEN 2
  ELSE IF v <= 2097151 THEN 3 ELSE 4

\* For the cases holding the encoding of a value up to maxv: read_u29 on
\* the encoding (of 1, 2, 3 or 4 bytes by range) returns the value and
\* leaves exactly the bytes after it, and so does the decode of an Integer.
U29RoundTrip(maxv) ==
  (/\ case.u29 /\ case.v <= maxv
   /\ status # "init" /\ asked[1] # "char") =>
    /\ Len(EncodeU29(case.v)) = U29Len(case.v)
    /\ \E r \in {read_u29(new(EncodeU29(case.v) \o case.pad))} :
         r.ok /\ r.val = case.v /\ r.d.input = case.pad
    /\ status = "ok"
    /\ inner.input = case.pad
    /\ asked[1] = "value" =>
         /\ Trace[Len(Trace)].op = "visit_int"
         /\ Trace[Len(Trace)].carrier = case.v

ByValueBefore(k) ==
  SelectSeq(SubSeq(Trace, 1, k - 1),
            LAMBDA e : /\ e.op = "read_string"
                       /\ e.ok
                       /\ HeaderAt(e.in0).val % 2 = 1
                       /\ e.val # << >>)

\* C2: the i-th non-empty string decoded by value in the session (from 0,
\* over every read_string call) sits at index i of the reference table, and
\* a later read_string whose header has low bit 0 and index i returns that
\* string, consumes only the header and leaves the table as it was.
C2_StringReferences ==
  /\ Len(inner.string_reference_table) = Len(ByValueBefore(Len(Trace) + 1))
  /\ \A i \in 1..Len(inner.string_reference_table) :
       inner.string_reference_table[i] = ByValueBefore(Len(Trace) + 1)[i].val
  /\ \A k \in EventsOf("read_string") :
       \E h \in {HeaderAt(Trace[k].in0)} :
         (h.ok /\ h.val % 2 = 0 /\ h.val \div 2 < Len(ByValueBefore(k))) =>
           /\ Trace[k].ok
           /\ Trace[k].val = ByValueBefore(k)[(h.val \div 2) + 1].val
           /\ Trace[k].in1 = h.d.input
           /\ Trace[k].tab1 = Trace[k].tab0

\* C2's case: with two strings in the table, a reference to index 1 was
\* resolved.
C2_Witness ==
  \E k \in EventsOf("read_string") :
    /\ Trace[k].ok
    /\ HeaderAt(Trace[k].in0).val = 2
    /\ Len(Trace[k].tab0) = 2
    /\ Trace[k].val = Trace[k].tab0[2]
    /\ Trace[k].val # Trace[k].tab0[1]

\* C3: the reference table never holds the empty string: a read_string of
\* the header 0x01 returns the empty string and leaves the table as it was,
\* and a reference to the index equal to the table's length fails with
\* MissingStringReference.
C3_EmptyNotCached ==
  /\ \A i \in 1..Len(inner.string_reference_table) :
       inner.string_reference_table[i] # << >>
  /\ \A k \in EventsOf("read_string") :
       /\ (Trace[k].in0 # << >> /\ Trace[k].in0[1] = 1) =>
            /\ Trace[k].ok
            /\ Trace[k].val = << >>
            /\ Trace[k].tab1 = Trace[k].tab0
            /\ Trace[k].in1 = Tail(Trace[k].in0)
       /\ \E h \in {HeaderAt(Trace[k].in0)} :
            (h.ok /\ h.val % 2 = 0 /\ h.val \div 2 = Len(Trace[k].tab0)) =>
              /\ ~Trace[k].ok
              /\ Trace[k].err = MissingStringReference
              /\ Trace[k].tab1 = Trace[k].tab0

\* C3's case: an empty string was decoded by value as a String value, and
\* the reference to index 0 that followed it failed.
C3_Witness ==
  \E j, k \in EventsOf("read_string") :
    /\ 1 < j /\ j < k
    /\ Trace[j].ok /\ Trace[j].val = << >> /\ Trace[j].in0[1] = 1
    /\ Trace[j - 1].op = "read_marker" /\ Trace[j - 1].val = "String"
    /\ Trace[k].in0 # << >> /\ Trace[k].in0[1] = 0
    /\ Trace[k].tab0 = << >>
    /\ Trace[k].err = MissingStringReference
    /\ status = "err"

\* The live accesses of one kind.
Frames(kind) == {i \in 1..Len(stack) : stack[i].kind = kind}

\* The dense count an access was given, decoded again from the header.
CountAt(f) == HeaderAt(f.hdr).val \div 2

\* What C4 says of one live sequence access f: the header had low bit 1, the
\* string after it was empty, every element asked for started with a marker
\* read further along the input than the one before, the elements returned
\* and those left add up to the count N, and once the access has answered
\* None it has returned N elements and read nothing for the None.
SeqAccessOk(f) ==
  /\ HeaderAt(f.hdr).ok /\ HeaderAt(f.hdr).val % 2 = 1
  /\ f.first = << >>
  /\ Len(f.starts) = f.yielded + (IF f.phase = "inner" THEN 1 ELSE 0)
  /\ f.yielded + f.len + (IF f.phase = "inner" THEN 1 ELSE 0) = CountAt(f)
  /\ \A k \in 1..Len(f.starts) :
       /\ \E j \in EventsOf("read_marker") : Len(Trace[j].in0) = f.starts[k]
       /\ k = 1 =>
            f.starts[k] = Len(HeaderAt(HeaderAt(f.hdr).d.input).d.input)
       /\ k > 1 => f.starts[k] < f.starts[k - 1]
  /\ f.phase = "ask" => Len(inner.input) = f.mark
  /\ f.ended => f.yielded = CountAt(f) /\ f.len = 0

\* C4: an Array whose header has low bit 1 and count N, followed by the
\* empty string, is delivered through visit_seq and never visit_map; the
\* sequence yields exactly N elements, each one decode of the next value of
\* the input, and the request after them is answered None with no byte read.
C4_DenseArray ==
  /\ \A i \in Frames("seq") : SeqAccessOk(stack[i])
  /\ \A i \in Frames("map") : stack[i].first # << >>

\* C4's case: the sequence of tests::test_array has returned 1, 2, 3 and
\* then None.
C4_Witness ==
  /\ buffer = << 9, 7, 1, 4, 1, 4, 2, 4, 3 >>
  /\ status = "running"
  /\ Top.kind = "seq" /\ Top.ended /\ Top.yielded = 3
  /\ inner.input = << >>
  /\ \E i, j, k \in EventsOf("visit_int") :
       /\ i < j /\ j < k
       /\ Trace[i].val = 1 /\ Trace[j].val = 2 /\ Trace[k].val = 3

\* The keys an access returned, by kind.
StrKeys(f) == SelectSeq(f.keys, LAMBDA k : ~k.int)
IntKeys(f) == SelectSeq(f.keys, LAMBDA k : k.int)

\* What C5 says of one live mapping access f with count N: its first key
\* was not empty; the keys returned are the strings read as keys, in the
\* order read, then the integers N-1, N-2, ..; an integer key comes only
\* after the empty key was read; between two entries the next key has been
\* read; and once the access has answered None, the empty key was read and
\* all N integers were returned.
MapAccessOk(f) ==
  /\ HeaderAt(f.hdr).ok /\ HeaderAt(f.hdr).val % 2 = 1
  /\ f.first # << >>
  /\ f.keys = StrKeys(f) \o IntKeys(f)
  /\ Len(StrKeys(f)) <= Len(f.read)
  /\ \A j \in 1..Len(StrKeys(f)) :
       StrKeys(f)[j].s = f.read[j] /\ f.read[j] # << >>
  /\ \A k \in 1..Len(IntKeys(f)) : IntKeys(f)[k].i = CountAt(f) - k
  /\ f.len = CountAt(f) - Len(IntKeys(f))
  /\ f.next_key = f.read[Len(f.read)]
  /\ IntKeys(f) # << >> => f.next_key = << >>
  /\ f.next_key = << >> => Len(StrKeys(f)) = Len(f.read) - 1
  /\ (f.phase = "ask" /\ f.next_key # << >>) =>
       Len(StrKeys(f)) = Len(f.read) - 1
  /\ f.ended => f.next_key = << >> /\ Len(IntKeys(f)) = CountAt(f)

\* C5: an Array whose header has low bit 1 and count N, followed by a
\* non-empty string, is delivered through visit_map; its entries are the
\* associative keys in encoded order, each followed by its value and the read
\* of the next key, until the empty key; then N entries keyed N-1, .., 0 in
\* that order; then None.
C5_KeyOrder ==
  /\ \A i \in Frames("map") : MapAccessOk(stack[i])
  /\ \A i \in Frames("seq") : stack[i].first = << >>

\* C5's case: the mapping with one associative key and two dense values has
\* returned the keys "a", 1, 0 and then None.
C5_Witness ==
  /\ buffer = << 9, 5, 3, 97, 4, 5, 1, 4, 6, 4, 7 >>
  /\ status = "running"
  /\ Top.kind = "map" /\ Top.ended
  /\ Top.keys = << StrKey(<< 97 >>), IntKey(1), IntKey(0) >>
  /\ inner.input = << >>
  /\ \E i, j, k \in EventsOf("visit_int") :
       /\ i < j /\ j < k
       /\ Trace[i].val = 5 /\ Trace[j].val = 6 /\ Trace[k].val = 7

\* C6: when a buffer decoded successfully, read to its last byte, with a
\* consumer that read every element, the decode of the buffer without its
\* last byte by the same consumer fails with EndOfStream: it is never left
\* waiting for a request the consumer did not make, never returns a value,
\* never aborts and never fails with another error. The decode of the empty
\* buffer fails with EndOfStream whatever is asked for.
C6_Truncation ==
  /\ round = 2 =>
       /\ buffer = SubSeq(case.bytes, 1, Len(case.bytes) - 1)
       /\ plan # << >>
       /\ status \in {"init", "running", "err"}
       /\ status = "err" => error = EndOfStream
       /\ status = "running" =>
            ((Top.phase = "value" \/ (Top.kind = "seq" /\ Top.len > 0))
               => Len(asked) < Len(plan))
  /\ (buffer = << >> /\ status # "init" /\ asked[1] # "char") =>
       status = "err" /\ error = EndOfStream

\* C6's case: an array nested in an array and missing its last byte has
\* failed with EndOfStream inside the inner sequence.
C6_Witness ==
  /\ round = 2
  /\ case.bytes = << 9, 3, 1, 9, 3, 1, 4, 5 >>
  /\ status = "err" /\ error = EndOfStream
  /\ \E i, j \in EventsOf("visit_seq") : i < j
  /\ inner.input = << >>

\* The events after event k are only the returns of the calls that were
\* running at k, each handing on the error e with the input left as it was.
OnlyUnwinds(k, e, in) ==
  \A j \in (k + 1)..Len(Trace) :
    /\ Trace[j].op \in {"read_marker", "read_string", "skip"}
    /\ ~Trace[j].ok
    /\ Trace[j].err = e
    /\ Trace[j].in1 = in

\* C7: wherever a marker was read (for the top-level value, a sequence
\* element, a mapping value or in skip), a byte b >= 0x12 made the decode
\* fail with InvalidMarker(b), with no byte read and no value delivered
\* after it, and a byte b < 0x12 gave the marker whose tag is b.
C7_Markers ==
  \A k \in EventsOf("read_marker") :
    \E b \in {Head(Trace[k].in0)} :
      /\ Trace[k].in1 = Tail(Trace[k].in0)
      /\ b < 18 =>
           /\ Trace[k].ok
           /\ Trace[k].val = Markers[b + 1]
           /\ \A c \in 0..17 : Markers[c + 1] = Trace[k].val => c = b
      /\ b >= 18 =>
           /\ ~Trace[k].ok
           /\ Trace[k].err = InvalidMarker(b)
           /\ status = "err"
           /\ error = InvalidMarker(b)
           /\ stack = << >>
           /\ inner.input = Tail(Trace[k].in0)
           /\ OnlyUnwinds(k, InvalidMarker(b), Tail(Trace[k].in0))

\* C7's case: the byte 0x12 was read as the marker of a sequence element.
C7_Witness ==
  \E k \in EventsOf("read_marker") :
    /\ Head(Trace[k].in0) = 18
    /\ Trace[k].err = InvalidMarker(18)
    /\ \E j \in EventsOf("visit_seq") : j < k
    /\ status = "err"

\* The values of the integer type t.
RangeOf(t) ==
  IF t = "u8" THEN 0..255
  ELSE IF t = "u16" THEN 0..65535
  ELSE IF t = "i8" THEN -128..127
  ELSE IF t = "i16" THEN -32768..32767
  ELSE IF t \in {"u32", "u64"} THEN 0..2147483647
  ELSE -2147483647..2147483647

\* 2^W for the types narrower than the carrier.
ModulusOf(t) == IF t \in {"u8", "i8"} THEN 256 ELSE 65536

\* C8: an Integer decoded at an integer type delivers the cast of the u32
\* carrier v to that type: the type asked for (u32 for an untyped decode);
\* v itself if v is a value of the type; for u8 and u16 v mod 2^W; for i8
\* and i16 the value of the type congruent to v mod 2^W; for i32 and i64 v,
\* with no sign extension from bit 28. [0x04, 0x05] gives 5 at every type,
\* and an Integer marker is followed by the delivery unless the U29 ended
\* early.
C8_IntegerCast ==
  /\ \A k \in EventsOf("visit_int") :
       \E e \in {Trace[k]} :
         /\ e.ty = (IF e.req = "any" THEN "u32" ELSE e.req)
         /\ e.carrier \in 0..536870911
         /\ e.ty \notin {"f32", "f64"} =>
              /\ e.val \in RangeOf(e.ty)
              /\ e.carrier \in RangeOf(e.ty) => e.val = e.carrier
              /\ e.ty \in {"u8", "u16", "i8", "i16"} =>
                   (e.carrier - e.val) % ModulusOf(e.ty) = 0
              /\ e.ty \in {"u32", "u64", "i32", "i64"} => e.val = e.carrier
  /\ \A k \in EventsOf("read_marker") :
       (Trace[k].ok /\ Trace[k].val = "Integer") =>
         /\ k < Len(Trace)
         /\ Trace[k + 1].op \in {"visit_int", "raise", "skip"}
         /\ Trace[k + 1].op = "raise" => Trace[k + 1].err = EndOfStream
  /\ (buffer = << 4, 5 >> /\ status # "init" /\ asked[1] = "value") =>
       /\ status = "ok"
       /\ Trace[Len(Trace)].op = "visit_int"
       /\ Trace[Len(Trace)].val = 5

\* C8's case: 255 was delivered as the i8 -1.
C8_Witness ==
  \E k \in EventsOf("visit_int") :
    /\ Trace[k].ty = "i8" /\ Trace[k].req = "i8"
    /\ Trace[k].carrier = 255
    /\ Trace[k].val = -1
    /\ status = "ok"

\* The markers with no payload, for which skip's match takes the `_` arm.
NoPayload == {"Undefined", "Null", "False", "True"}

\* What C9 says of skip for Integer and Double, and of a skip that finds no
\* marker: an Integer skips one U29 of 1 to 4 bytes, a Double exactly 8
\* bytes or fails with EndOfStream, the table is unchanged, and the cursor
\* ends where deserialize_any of the same input ends.
SkipNumbers(e) ==
  /\ e.tab1 = e.tab0
  /\ e.in0 = << >> => ~e.ok /\ e.err = EndOfStream
  /\ (e.in0 # << >> /\ Head(e.in0) >= 18) =>
       ~e.ok /\ e.err = InvalidMarker(Head(e.in0))
  /\ (e.in0 # << >> /\ Head(e.in0) = 4) =>
       /\ e.err # Panic
       /\ e.ok => (Len(e.in0) - Len(e.in1)) \in 2..5
       /\ e.ok = HeaderAt(Tail(e.in0)).ok
       /\ ~e.ok => e.err = EndOfStream
  /\ (e.in0 # << >> /\ Head(e.in0) = 5) =>
       /\ e.err # Panic
       /\ e.ok = (Len(e.in0) >= 9)
       /\ e.ok => e.in1 = SubSeq(e.in0, 10, Len(e.in0))
       /\ ~e.ok => e.err = EndOfStream
  /\ (e.in0 # << >> /\ Head(e.in0) \in {4, 5}) =>
       \E r \in {deserialize_into(new(e.in0), "any")} :
         /\ r.ok = e.ok
         /\ r.err = e.err
         /\ r.d.input = e.in1

\* C9, as stated: what SkipNumbers says, and for every marker other than
\* Integer and Double skip aborts the process instead of returning.
C9_AsStated ==
  \A k \in EventsOf("skip") :
    /\ SkipNumbers(Trace[k])
    /\ (Trace[k].in0 # << >> /\ Head(Trace[k].in0) \in (0..17) \ {4, 5}) =>
         (Trace[k].err = Panic /\ status = "abort")

\* C9, amended: what SkipNumbers says; for Undefined, Null, False and True
\* skip consumes the marker alone and returns; for every marker other than
\* these, Integer and Double it aborts the process instead of returning.
C9_Skip ==
  \A k \in EventsOf("skip") :
    /\ SkipNumbers(Trace[k])
    /\ (Trace[k].in0 # << >> /\ Head(Trace[k].in0) \in 0..3) =>
         /\ Trace[k].ok
         /\ Trace[k].in1 = Tail(Trace[k].in0)
         /\ k < Len(Trace) /\ Trace[k + 1].op = "visit_none"
    /\ (Trace[k].in0 # << >> /\ Head(Trace[k].in0) \in 6..17) =>
         /\ Trace[k].err = Panic
         /\ status = "abort"
         /\ k = Len(Trace)
    /\ Trace[k].ok =>
         (Trace[k].in0 # << >> /\ Markers[Head(Trace[k].in0) + 1]
            \in NoPayload \cup {"Integer", "Double"})

\* C9's case: inside a sequence a Double was skipped, 8 bytes after the
\* marker, and a placeholder delivered for it.
C9_Witness ==
  \E k \in EventsOf("skip") :
    /\ Trace[k].ok
    /\ Head(Trace[k].in0) = 5
    /\ Len(Trace[k].in0) - Len(Trace[k].in1) = 9
    /\ Trace[k + 1].op = "visit_none"
    /\ \E j \in EventsOf("visit_seq") : j < k

\* The errors of format::Error.
FormatErrors == {"InvalidMarker", "EndOfStream", "StringDecode",
                 "MissingStringReference"}

\* C10: a format error raised anywhere in the decode (for the top-level
\* value, a sequence element, a mapping value or a mapping key, at any depth)
\* ends the whole decode: deserialize returns that error and no value, every
\* access is gone, exactly one error was raised, and nothing was read or
\* delivered after it. Without an error raised, deserialize does not fail.
C10_Propagation ==
  /\ Cardinality(EventsOf("raise")) <= 1
  /\ (status = "err") = (EventsOf("raise") # {})
  /\ \A r \in EventsOf("raise") :
       /\ Trace[r].err.kind \in FormatErrors
       /\ error = Trace[r].err
       /\ stack = << >>
       /\ inner.input = Trace[r].in
       /\ OnlyUnwinds(r, Trace[r].err, Trace[r].in)
  /\ status \in {"ok", "abort"} => stack = << >>
  /\ status = "ok" => error = NoError

\* C10's case: in a mapping, after a value was delivered, the read of the
\* next key failed and the decode returned the error.
C10_Witness ==
  \E r \in EventsOf("raise") :
    /\ r > 1 /\ r < Len(Trace)
    /\ Trace[r - 1].op = "visit_borrowed_str"
    /\ Trace[r + 1].op = "read_string"
    /\ \E j \in EventsOf("visit_map") : j < r
    /\ status = "err" /\ error = Trace[r].err

\* The deliveries to the visitor.
Visits ==
  {"visit_none", "visit_bool", "visit_int", "visit_double",
   "visit_borrowed_str", "visit_seq", "visit_map"}

\* The bytes read so far.
Consumed == Len(buffer) - Len(inner.input)

\* deserialize has returned or the process has aborted.
Done == status \in {"ok", "err", "abort"}

\* The arrays entered whose dense count is larger than the number of bytes
\* left after the first key.
Oversized ==
  {k \in EventsOf("visit_seq") \cup EventsOf("visit_map") :
     Trace[k].len > Len(Trace[k - 1].in1)}

\* The single pass in one state: the cursor is a suffix of the buffer, the
\* values delivered and the values asked for are bounded by the bytes read,
\* and a sequence has returned no more elements than there were bytes after
\* its header.
SinglePass ==
  /\ inner.input = SubSeq(buffer, Consumed + 1, Len(buffer))
  /\ Cardinality({k \in 1..Len(Trace) : Trace[k].op \in Visits}) <= Consumed
  /\ Len(asked) <= Consumed + 1
  /\ status \in {"running", "ok"} => Len(asked) <= Consumed
  /\ \A k \in EventsOf("visit_seq") \cup EventsOf("visit_map") :
       k > 1 /\ Trace[k - 1].op = "read_string" /\ Trace[k - 1].ok
  /\ \A i \in Frames("seq") :
       /\ stack[i].yielded <=
            Len(HeaderAt(HeaderAt(stack[i].hdr).d.input).d.input)
       /\ stack[i].ended =>
            CountAt(stack[i]) <=
              Len(HeaderAt(HeaderAt(stack[i].hdr).d.input).d.input)

\* The single pass in one step: the cursor does not move back, and a step
\* that asks for a value reads at least one byte, unless it fails with
\* EndOfStream at the end of the input or aborts in a method that is todo!().
ForwardStep ==
  /\ Len(inner'.input) <= Len(inner.input)
  /\ inner'.input =
       SubSeq(inner.input, Len(inner.input) - Len(inner'.input) + 1,
              Len(inner.input))
  /\ Len(asked') > Len(asked) =>
       \/ Len(inner'.input) < Len(inner.input)
       \/ /\ inner.input = << >>
          /\ status' = "err" /\ error' = EndOfStream
       \/ /\ asked'[Len(asked')] = "char"
          /\ status' = "abort"

\* C11, as stated, for a consumer that read every element and called no
\* method that is todo!(), where the process did not abort: the single
\* pass, and a header with a dense count larger than the number of bytes left
\* ends in EndOfStream.
C11_AsStated ==
  /\ SinglePass
  /\ (/\ Done /\ drained /\ Oversized # {}
      /\ status # "abort" /\ \A i \in 1..Len(asked) : asked[i] # "char") =>
       (status = "err" /\ error = EndOfStream)

\* C11, amended: deserialize terminates with a value, an error or an abort
\* in a single forward pass; the cursor never moves back; every value asked
\* for reads at least one byte or fails with EndOfStream; the values decoded
\* are bounded by the buffer length; and after a header with a dense count
\* larger than the number of bytes left, a consumer that reads every element
\* gets an error or an abort, never N elements: EndOfStream, or what a byte
\* before the end of the input raised.
C11_SinglePass ==
  /\ []SinglePass
  /\ []((Done /\ drained /\ Oversized # {}) => status \in {"err", "abort"})
  /\ [][ForwardStep]_vars
  /\ <>Done

\* C11's case: a sequence announced with 64 elements and one byte left has
\* returned that one element and failed with EndOfStream on the second.
C11_Witness ==
  /\ buffer = << 9, 129, 1, 1, 2 >>
  /\ \E k \in Oversized : Trace[k].op = "visit_seq" /\ Trace[k].len = 64
  /\ \E k \in EventsOf("visit_bool") : k < Len(Trace)
  /\ inner.input = << >>
  /\ Len(asked) = 3
  /\ status = "err" /\ error = EndOfStream

=============================================================================
